---- MODULE Spec2Model ----
(***************************************************************************)
(* Model of src/streamlit_app.py, the Streamlit foundation layout tool.    *)
(*                                                                         *)
(* Lengths are fixed point, in millimetres: a slider value of 0.1 m is 100,*)
(* a foundation diameter of 10.0 m is 10000; the float a value stands for   *)
(* is the one nearest to it.  The validation rules compare floats, and are *)
(* modelled with the rounding of Python's float arithmetic where the       *)
(* rounding decides the comparison (see "Constraint validation").  The     *)
(* coordinates of a generated pattern are rounded to the millimetre.       *)
(*                                                                         *)
(* Python lists are objects: `heap` maps a list's address to its items,    *)
(* and a layout's 'tendons', 'grout_connections' and 'access_shafts' hold  *)
(* addresses, so that list.append (in place), list.copy() (a new object)   *)
(* and assignment (rebinding) keep the meaning they have in the source.    *)
(* The component dicts are never assigned to after they are built, and are *)
(* values here.                                                            *)
(*                                                                         *)
(* One user interaction (a click or a widget change) runs the script from  *)
(* top to bottom, and again from the top after st.rerun(); an action of    *)
(* the model is one interaction, reruns included.                          *)
(***************************************************************************)
EXTENDS Integers, Sequences, FiniteSets, TLC

VARIABLES
    heap,                 \* list objects: address -> sequence of component dicts
    current_layout,       \* st.session_state.current_layout
    layouts,              \* st.session_state.layouts
    foundation_diameter,  \* the "Foundation Diameter (m)" slider, in mm
    wall_thickness,       \* the "Wall Thickness (m)" slider, in mm
    page,                 \* what the last script run rendered in "Engineering Analysis"
    clock,                \* wall clock read by datetime.now(), in half minutes
    event                 \* history: the last interaction, the tendon count before
                          \* it, and the inputs of a generate or a load

vars == <<heap, current_layout, layouts, foundation_diameter, wall_thickness,
          page, clock, event>>

-----------------------------------------------------------------------------
(* Bounds of the model *)

\* Interactions in a session; each takes one tick (half a minute) of the clock.
MaxClock == 4
\* Tendons in a layout drawn for the validation rules alone (SpecValidate).
MaxValidated == 2

\* Values the widgets are moved to (each within its slider's range and step).
FoundationDiameters == {5000, 10000}
WallThicknesses == {800, 1500}
\* (number of tendons, tendon diameter) of a generated pattern, and its radius
PatternChoices == {<<4, 150>>, <<8, 150>>, <<24, 300>>}
RadiusChoices == {2000}
TypedNames == {"A"}

-----------------------------------------------------------------------------
(* Widgets *)

NoButton == "none"
NoText == "<untouched>"
BtnGenerate == "Generate Circular Pattern"
BtnAddTendon == "Add Tendon"
BtnAddGrout == "Add Grout Connection"
BtnAddShaft == "Add Access Shaft"
BtnClear == "Clear All Components"
BtnSave == "Save Layout"
BtnLoad == "Load Layout"

\* Slider defaults of the component placement controls.
default_manual == [x |-> 0, y |-> 0, diameter |-> 150]
default_grout == [x |-> 0, y |-> 2000, diameter |-> 400]
default_shaft == [x |-> 0, y |-> -3000, diameter |-> 1200]
default_radius == 4000
min_radius == 2000

\* st.slider(label, min, max, value, step) raises when value is outside [min, max].
SliderRaises(min_value, max_value, value) ==
    ~(min_value <= value /\ value <= max_value)

\* The sidebar's placement controls of one script run: TRUE when building one of
\* the sliders raises, which ends the run before any button below it exists.
\* Lengths are doubled to keep foundation_diameter/2 integral.
SidebarRaises(w) ==
    LET fd == w.foundation_diameter
        xy(v) == SliderRaises(-fd, fd, 2 * v)
    IN  CASE w.component_type = "Prestressing Tendon" /\ w.placement_mode = "Circular Pattern" ->
                SliderRaises(2 * min_radius, fd - 2000, 2 * w.radius)
                \/ SliderRaises(2 * min_radius, fd - 2000, 2 * default_radius)
          [] w.component_type = "Prestressing Tendon" /\ w.placement_mode = "Manual" ->
                xy(w.x) \/ xy(w.y)
          [] w.component_type = "Grout Connection" ->
                xy(w.x) \/ xy(w.y) \/ xy(default_grout.y)
          [] OTHER ->
                xy(w.x) \/ xy(w.y) \/ xy(default_shaft.y)

\* st.text_input(label, value=default): the text typed in this run, else the default.
TextInput(default, typed) == IF typed = NoText THEN default ELSE typed

-----------------------------------------------------------------------------
(* Python list objects *)

NewRef(h) == CHOOSE r \in 1..(Cardinality(DOMAIN h) + 1) :
                /\ r \notin DOMAIN h
                /\ \A q \in 1..(r - 1) : q \in DOMAIN h

\* [] : a new, empty list object
ListNew(h) == LET r == NewRef(h) IN [heap |-> (r :> <<>>) @@ h, ref |-> r]

\* A save or load that stores the list itself instead of a copy of it.
ListShare(h, r) == [heap |-> h, ref |-> r]

\* lst.copy() : a new list object with the same items
ListCopy(h, r) == LET q == NewRef(h) IN [heap |-> (q :> h[r]) @@ h, ref |-> q]

\* lst.append(item) : in place, seen through every reference to the object
ListAppend(h, r, item) == [h EXCEPT ![r] = Append(@, item)]

RECURSIVE ListExtend(_, _, _)
\* for item in items: lst.append(item)
ListExtend(h, r, items) ==
    IF items = <<>> THEN h
    ELSE ListExtend(ListAppend(h, r, Head(items)), r, Tail(items))

\* The addresses a session state refers to, in a fixed order of the roots.
Roots(cl, ls) ==
    <<cl.tendons, cl.grout_connections, cl.access_shafts>>
    \o [i \in 1..(3 * Len(ls)) |->
          LET layout == ls[((i - 1) \div 3) + 1]
          IN  CASE (i - 1) % 3 = 0 -> layout.tendons
                [] (i - 1) % 3 = 1 -> layout.grout_connections
                [] OTHER -> layout.access_shafts]

\* Reference counting frees a list no layout refers to any more.  An address has
\* no meaning beyond identity, so the live lists are renamed 1, 2, ... in the
\* order the roots first reach them: two states that differ only in the names
\* of their addresses are the same state.
Normalize(ss) ==
    LET roots == Roots(ss.current_layout, ss.layouts)
        first(r) == CHOOSE i \in 1..Len(roots) :
                        roots[i] = r /\ \A j \in 1..(i - 1) : roots[j] # r
        name(r) == Cardinality({roots[j] : j \in 1..first(r)})
        live == {roots[i] : i \in 1..Len(roots)}
        old(a) == CHOOSE r \in live : name(r) = a
    IN  [heap |-> [a \in 1..Cardinality(live) |-> ss.heap[old(a)]],
         current_layout |->
            [ss.current_layout EXCEPT !.tendons = name(@),
                                      !.grout_connections = name(@),
                                      !.access_shafts = name(@)],
         layouts |->
            [k \in 1..Len(ss.layouts) |->
                [ss.layouts[k] EXCEPT !.tendons = name(@),
                                      !.grout_connections = name(@),
                                      !.access_shafts = name(@)]]]

\* Reading a layout's collections through the heap.
Tendons(h, layout) == h[layout.tendons]
GroutConnections(h, layout) == h[layout.grout_connections]
AccessShafts(h, layout) == h[layout.access_shafts]

-----------------------------------------------------------------------------
(* Circular pattern *)

\* cos(k * 15 degrees) * 10000, rounded, for k = 0..6.
CosQuadrant == <<10000, 9659, 8660, 7071, 5000, 2588, 0>>
CosScale == 10000

\* np.cos and np.sin of an angle of k * 15 degrees, times CosScale.
Cos15(k) ==
    LET a == k % 24
    IN  IF a <= 6 THEN CosQuadrant[a + 1]
        ELSE IF a <= 12 THEN -CosQuadrant[(12 - a) + 1]
        ELSE IF a <= 18 THEN -CosQuadrant[(a - 12) + 1]
        ELSE CosQuadrant[(24 - a) + 1]
Sin15(k) == Cos15(k + 18)

\* radius * cos(angle), to the nearest millimetre.
Scaled(radius, c) ==
    IF c >= 0 THEN (radius * c + CosScale \div 2) \div CosScale
    ELSE -((radius * (-c) + CosScale \div 2) \div CosScale)

\* np.linspace(0, 2*np.pi, num_tendons, endpoint=False)[i], in units of 15 degrees
\* (num_tendons divides 24 for every pattern in PatternChoices).
Angle(i, num_tendons) == i * (24 \div num_tendons)

\* The dicts the loop of the handler appends, in order.
CircularPattern(num_tendons, radius, tendon_diameter) ==
    [k \in 1..num_tendons |->
        [id |-> k - 1,
         x |-> Scaled(radius, Cos15(Angle(k - 1, num_tendons))),
         y |-> Scaled(radius, Sin15(Angle(k - 1, num_tendons))),
         diameter |-> tendon_diameter,
         type |-> "vertical"]]

-----------------------------------------------------------------------------
(* Button handlers: each maps a session state [heap, current_layout, layouts] *)

\* A generation that appends the pattern to the tendons already there.
GenerateAppending(ss, w) ==
    [ss EXCEPT !.heap = ListExtend(@, ss.current_layout.tendons,
                    CircularPattern(w.num_tendons, w.radius, w.diameter))]

\* "Generate Circular Pattern": rebinds 'tendons' to a new list and fills it.
GenerateCircularPattern(ss, w) ==
    LET l == ListNew(ss.heap)
    IN  [ss EXCEPT
            !.current_layout.tendons = l.ref,
            !.heap = ListExtend(l.heap, l.ref,
                        CircularPattern(w.num_tendons, w.radius, w.diameter))]

\* A 1-based numbering of manual additions.
NextIdOneBased(h, r) == Len(h[r]) + 1

\* The id a manual addition gets: len() of the collection before the append.
NextId(h, r) == Len(h[r])

\* "Add Tendon"
AddTendon(ss, w) ==
    LET r == ss.current_layout.tendons
    IN  [ss EXCEPT !.heap = ListAppend(@, r,
            [id |-> NextId(ss.heap, r), x |-> w.x, y |-> w.y,
             diameter |-> w.diameter, type |-> "vertical"])]

\* "Add Grout Connection"
AddGroutConnection(ss, w) ==
    LET r == ss.current_layout.grout_connections
    IN  [ss EXCEPT !.heap = ListAppend(@, r,
            [id |-> NextId(ss.heap, r), x |-> w.x, y |-> w.y,
             diameter |-> w.diameter])]

\* "Add Access Shaft"
AddAccessShaft(ss, w) ==
    LET r == ss.current_layout.access_shafts
    IN  [ss EXCEPT !.heap = ListAppend(@, r,
            [id |-> NextId(ss.heap, r), x |-> w.x, y |-> w.y,
             diameter |-> w.diameter])]

\* "Clear All Components": rebinds the three collections to new empty lists.
ClearAll(ss) ==
    LET t == ListNew(ss.heap)
        g == ListNew(t.heap)
        a == ListNew(g.heap)
    IN  [ss EXCEPT !.heap = a.heap,
                   !.current_layout.tendons = t.ref,
                   !.current_layout.grout_connections = g.ref,
                   !.current_layout.access_shafts = a.ref]

\* datetime.now().strftime("%Y-%m-%d %H:%M"): the minute, seconds dropped.
Strftime(now) == now \div 2

\* "Save Layout": appends layout_copy, which holds copies of the three lists and
\* the values of the two foundation sliders.
SaveLayout(ss, w, layout_name) ==
    LET t == ListCopy(ss.heap, ss.current_layout.tendons)
        g == ListCopy(t.heap, ss.current_layout.grout_connections)
        a == ListCopy(g.heap, ss.current_layout.access_shafts)
        layout_copy == [name |-> layout_name,
                        timestamp |-> Strftime(w.now),
                        tendons |-> t.ref,
                        grout_connections |-> g.ref,
                        access_shafts |-> a.ref,
                        foundation_diameter |-> w.foundation_diameter,
                        wall_thickness |-> w.wall_thickness]
    IN  [ss EXCEPT !.heap = a.heap, !.layouts = Append(@, layout_copy)]

\* A load that makes the saved layout itself the current one.
LoadLayoutItself(ss, i) ==
    LET layout == ss.layouts[i + 1]
    IN  [ss EXCEPT !.current_layout = [name |-> layout.name,
                                       tendons |-> layout.tendons,
                                       grout_connections |-> layout.grout_connections,
                                       access_shafts |-> layout.access_shafts]]

\* "Load Layout {i}": rebinds current_layout to a new dict holding copies of
\* the saved lists; i is the 0-based index of the expander's button.
LoadLayout(ss, i) ==
    LET layout == ss.layouts[i + 1]
        t == ListCopy(ss.heap, layout.tendons)
        g == ListCopy(t.heap, layout.grout_connections)
        a == ListCopy(g.heap, layout.access_shafts)
    IN  [ss EXCEPT !.heap = a.heap,
                   !.current_layout = [name |-> layout.name \o " (copy)",
                                       tendons |-> t.ref,
                                       grout_connections |-> g.ref,
                                       access_shafts |-> a.ref]]

-----------------------------------------------------------------------------
(* Python floats                                                            *)
(*                                                                          *)
(* The validation works on Python floats (IEEE 754 binary64).  A float is   *)
(* (-1)^neg * m * 2^e with m a natural number of at most 53 bits, and each  *)
(* operation returns the float nearest to its exact result, ties to even.   *)
(* The significands and the exact intermediate results need more than 32    *)
(* bits, so natural numbers are sequences of limbs in base 2^15, least      *)
(* significant first, without a leading zero limb; <<>> is 0.               *)
(*                                                                          *)
(* An operation is applied through Call, which evaluates the arguments once *)
(* and then the operation's definition (named ...Of) on their values.       *)

Base == 2^15

RECURSIVE Call(_, _)

\* a + b, a - b (for a >= b), the sign of a - b, a * k (0 <= k < Base), a * b
BAdd(a, b) == Call("BAdd", <<a, b>>)
BSub(a, b) == Call("BSub", <<a, b>>)
BCmp(a, b) == Call("BCmp", <<a, b>>)
BMulSmall(a, k) == Call("BMulSmall", <<a, k>>)
BMul(a, b) == Call("BMul", <<a, b>>)
\* quotient q and remainder r of a by k, 0 < k < Base
BDivSmall(a, k) == Call("BDivSmall", <<a, k>>)
\* a * 2^s; floor(a / 2^s) as q, and whether a bit was lost
Shl(a, s) == Call("Shl", <<a, s>>)
Shr(a, s) == Call("Shr", <<a, s>>)
\* the number of bits of a; floor(sqrt(a))
BitLen(a) == Call("BitLen", <<a>>)
ISqrtBits(a, r, hi, lo) == Call("ISqrtBits", <<a, r, hi, lo>>)
ISqrt(a) == Call("ISqrt", <<a>>)
\* the float nearest to (-1)^neg * n * 2^e
Round(neg, n, e) == Call("Round", <<neg, n, e>>)
\* a + b, a * b, a / k for an int 0 < k < Base, np.sqrt(a), on floats
FAdd(a, b) == Call("FAdd", <<a, b>>)
FMul(a, b) == Call("FMul", <<a, b>>)
FDivInt(a, k) == Call("FDivInt", <<a, k>>)
FSqrt(a) == Call("FSqrt", <<a>>)
\* a - b, and a < b, on floats
FSub(a, b) == Call("FSub", <<a, b>>)
FLess(a, b) == Call("FLess", <<a, b>>)
\* The float of a length of n millimetres given in metres, as a slider returns
\* it and a literal (0.3, 0.2) denotes it: the float nearest to n/1000.
Metres(n) == Call("Metres", <<n>>)

RECURSIVE Trim(_)
Trim(a) == IF a # <<>> /\ a[Len(a)] = 0 THEN Trim(SubSeq(a, 1, Len(a) - 1)) ELSE a

BFromInt(n) == Trim(<<n % Base, (n \div Base) % Base, n \div (Base * Base)>>)

RECURSIVE BAddC(_, _, _)
BAddC(a, b, c) ==
    IF a = <<>> /\ b = <<>> THEN (IF c = 0 THEN <<>> ELSE <<c>>)
    ELSE LET x == (IF a = <<>> THEN 0 ELSE Head(a)) + (IF b = <<>> THEN 0 ELSE Head(b)) + c
         IN  <<x % Base>> \o BAddC(IF a = <<>> THEN a ELSE Tail(a),
                                   IF b = <<>> THEN b ELSE Tail(b), x \div Base)
BAddOf(a, b) == BAddC(a, b, 0)

RECURSIVE BSubC(_, _, _)
BSubC(a, b, c) ==
    IF a = <<>> THEN <<>>
    ELSE LET x == Head(a) - (IF b = <<>> THEN 0 ELSE Head(b)) - c
         IN  <<x % Base>> \o BSubC(Tail(a), IF b = <<>> THEN b ELSE Tail(b),
                                   IF x < 0 THEN 1 ELSE 0)
BSubOf(a, b) == Trim(BSubC(a, b, 0))

\* -1, 0, 1 as a < b, a = b, a > b
RECURSIVE BCmpFrom(_, _, _)
BCmpFrom(a, b, i) ==
    IF i = 0 THEN 0
    ELSE IF a[i] < b[i] THEN -1
    ELSE IF a[i] > b[i] THEN 1
    ELSE BCmpFrom(a, b, i - 1)
BCmpOf(a, b) ==
    IF Len(a) < Len(b) THEN -1
    ELSE IF Len(a) > Len(b) THEN 1
    ELSE BCmpFrom(a, b, Len(a))

RECURSIVE BMulSmallC(_, _, _)
BMulSmallC(a, k, c) ==
    IF a = <<>> THEN (IF c = 0 THEN <<>> ELSE <<c>>)
    ELSE LET x == Head(a) * k + c
         IN  <<x % Base>> \o BMulSmallC(Tail(a), k, x \div Base)
BMulSmallOf(a, k) == IF k = 0 THEN <<>> ELSE BMulSmallC(a, k, 0)

\* a * Base^n
ShiftLimbs(a, n) == IF a = <<>> THEN <<>> ELSE [i \in 1..n |-> 0] \o a

BMulOf(a, b) ==
    IF b = <<>> \/ a = <<>> THEN <<>>
    ELSE BAdd(BMulSmall(a, Head(b)), ShiftLimbs(BMul(a, Tail(b)), 1))

\* long division from the top limb, q the quotient limbs so far
RECURSIVE BDivFrom(_, _, _, _, _)
BDivFrom(a, k, i, rem, q) ==
    IF i = 0 THEN [q |-> Trim(q), r |-> rem]
    ELSE LET cur == rem * Base + a[i]
         IN  BDivFrom(a, k, i - 1, cur % k, <<cur \div k>> \o q)
BDivSmallOf(a, k) == BDivFrom(a, k, Len(a), 0, <<>>)

ShlOf(a, s) == ShiftLimbs(BMulSmall(a, 2^(s % 15)), s \div 15)

ShrLost(low, d) == [q |-> d.q, lost |-> d.r # 0 \/ \E i \in 1..Len(low) : low[i] # 0]
ShrOf(a, s) ==
    LET n == s \div 15
    IN  ShrLost(SubSeq(a, 1, IF n < Len(a) THEN n ELSE Len(a)),
                BDivSmall(SubSeq(a, n + 1, Len(a)), 2^(s % 15)))

RECURSIVE Bits(_)
Bits(n) == IF n = 0 THEN 0 ELSE 1 + Bits(n \div 2)
BitLenOf(a) == IF a = <<>> THEN 0 ELSE 15 * (Len(a) - 1) + Bits(a[Len(a)])

IsOdd(a) == a # <<>> /\ a[1] % 2 = 1

\* The root's bits hi down to lo, given those above hi (r), bit by bit.
ISqrtBitsOf(a, r, hi, lo) ==
    IF hi < lo THEN r
    ELSE IF hi = lo
    THEN IF BCmp(BMul(BAdd(r, Shl(<<1>>, hi)), BAdd(r, Shl(<<1>>, hi))), a) <= 0
         THEN BAdd(r, Shl(<<1>>, hi)) ELSE r
    ELSE ISqrtBits(a, ISqrtBits(a, r, hi, ((hi + lo) \div 2) + 1), (hi + lo) \div 2, lo)
ISqrtOf(a) == ISqrtBits(a, <<>>, (BitLen(a) + 1) \div 2, 0)

\* Bits of a float's significand.
Precision == 53
Zero == [neg |-> FALSE, m |-> <<>>, e |-> 0]

\* h is n without its last s - 1 bits: the bit after the 53 kept, and
\* whether a bit beyond it was set, decide the direction.
RoundTo(neg, e, s, h, q) ==
    [neg |-> neg, e |-> e + s,
     m |-> IF IsOdd(h.q) /\ (h.lost \/ IsOdd(q)) THEN BAdd(q, <<1>>) ELSE q]
RoundHalf(neg, e, s, h) == RoundTo(neg, e, s, h, Shr(h.q, 1).q)
\* `n` carries a sticky last bit when it is a truncated quotient or root.
RoundOf(neg, n, e) ==
    IF n = <<>> THEN Zero
    ELSE IF BitLen(n) <= Precision THEN [neg |-> neg, m |-> n, e |-> e]
    ELSE Call("RoundHalf", <<neg, e, BitLen(n) - Precision, Shr(n, BitLen(n) - Precision - 1)>>)

FromInt(n) == [neg |-> n < 0, m |-> BFromInt(IF n < 0 THEN -n ELSE n), e |-> 0]

FNeg(a) == IF a.m = <<>> THEN a ELSE [a EXCEPT !.neg = ~@]

\* x and y are the significands brought to the smaller exponent e0
FAddAligned(a, b, e0, x, y) ==
    IF a.neg = b.neg THEN Round(a.neg, BAdd(x, y), e0)
    ELSE IF BCmp(x, y) >= 0 THEN Round(a.neg, BSub(x, y), e0)
    ELSE Round(b.neg, BSub(y, x), e0)
FAddOf(a, b) ==
    IF a.m = <<>> THEN b
    ELSE IF b.m = <<>> THEN a
    ELSE LET e0 == IF a.e < b.e THEN a.e ELSE b.e
         IN  Call("FAddAligned", <<a, b, e0, Shl(a.m, a.e - e0), Shl(b.m, b.e - e0)>>)

FSubOf(a, b) == FAdd(a, FNeg(b))
FLessOf(a, b) == FSub(a, b).neg

MetresOf(n) == FDivInt(FromInt(n), 1000)

FMulOf(a, b) == Round(a.neg # b.neg, BMul(a.m, b.m), a.e + b.e)

\* d is a.m * 2^75 divided by k
FDivRound(a, d) ==
    Round(a.neg, BAdd(Shl(d.q, 1), IF d.r # 0 THEN <<1>> ELSE <<>>), a.e - 76)
FDivIntOf(a, k) == Call("FDivRound", <<a, BDivSmall(Shl(a.m, 75), k)>>)

\* for a = m * 2^(2e) * 2^-t: n = m * 2^t, r the floor of its root
FSqrtRound(e, n, r) ==
    Round(FALSE, BAdd(Shl(r, 1), IF BCmp(BMul(r, r), n) # 0 THEN <<1>> ELSE <<>>), e - 1)
FSqrtRoot(e, n) == Call("FSqrtRound", <<e, n, ISqrt(n)>>)
\* t makes a.e - t even and the root long enough to round
FSqrtShifted(a, t) == Call("FSqrtRoot", <<(a.e - t) \div 2, Shl(a.m, t)>>)
FSqrtOf(a) ==
    IF a.m = <<>> THEN Zero
    ELSE Call("FSqrtShifted",
              <<a, IF (a.e - (120 - BitLen(a.m))) % 2 = 0 THEN 120 - BitLen(a.m)
                   ELSE 121 - BitLen(a.m)>>)

-----------------------------------------------------------------------------
(* Constraint validation                                                    *)
(*                                                                          *)
(* Each check compares a float distance with a float limit.  The operands   *)
(* are whole millimetres below 2^15, so when the exact distance and the     *)
(* exact limit differ they differ by more than 10^-9 m, far more than the   *)
(* rounding of the handful of float operations involved (below 10^-14 m),   *)
(* and the float comparison agrees with the exact one, which is decided on  *)
(* the squares.  When the two are exactly equal the rounding decides, and   *)
(* the comparison is evaluated in float arithmetic, operation by operation. *)

min_clearance == 300
grout_clearance == 200

\* (x1 - x2)**2 + (y1 - y2)**2 in exact arithmetic, in mm^2
SquaredDistance(x1, y1, x2, y2) == (x1 - x2) * (x1 - x2) + (y1 - y2) * (y1 - y2)

\* sqrt(sq) < m/2, for m > 0, in exact arithmetic
SqrtBelowHalf(sq, m) == 4 * sq < m * m

\* sqrt(sq) > m/2, for any m, in exact arithmetic
SqrtAboveHalf(sq, m) == m < 0 \/ 4 * sq > m * m

\* np.sqrt(dx**2 + dy**2)
FloatNorm(dx, dy) == Call("FloatNorm", <<dx, dy>>)
FloatNormOf(dx, dy) == FSqrt(FAdd(FMul(dx, dx), FMul(dy, dy)))

\* np.sqrt((x1 - x2)**2 + (y1 - y2)**2)
FloatDistance(x1, y1, x2, y2) ==
    FloatNorm(FSub(Metres(x1), Metres(x2)), FSub(Metres(y1), Metres(y2)))

\* diameter/1000/2 for an int diameter
HalfMetres(diameter) == FDivInt(FDivInt(FromInt(diameter), 1000), 2)

\* distance + tendon['diameter']/1000/2 > foundation_diameter/2 - wall_thickness
FloatTooCloseToWallOf(tendon, fd, wt) ==
    FLess(FSub(FDivInt(Metres(fd), 2), Metres(wt)),
          FAdd(FloatDistance(tendon.x, tendon.y, 0, 0), HalfMetres(tendon.diameter)))

\* dist < (t1['diameter'] + t2['diameter'])/1000/2 + min_clearance
FloatTendonsTooCloseOf(t1, t2) ==
    FLess(FloatDistance(t1.x, t1.y, t2.x, t2.y),
          FAdd(HalfMetres(t1.diameter + t2.diameter), Metres(min_clearance)))

\* dist < grout['diameter']/1000/2 + tendon['diameter']/1000/2 + 0.2
FloatGroutNearTendonOf(grout, tendon) ==
    FLess(FloatDistance(grout.x, grout.y, tendon.x, tendon.y),
          FAdd(FAdd(HalfMetres(grout.diameter), HalfMetres(tendon.diameter)),
               Metres(grout_clearance)))

TooCloseToWall(tendon, fd, wt) ==
    LET sq == SquaredDistance(tendon.x, tendon.y, 0, 0)
        m == (fd - 2 * wt) - tendon.diameter
    IN  IF m >= 0 /\ 4 * sq = m * m THEN Call("FloatTooCloseToWall", <<tendon, fd, wt>>)
        ELSE SqrtAboveHalf(sq, m)

TendonsTooClose(t1, t2) ==
    LET sq == SquaredDistance(t1.x, t1.y, t2.x, t2.y)
        m == (t1.diameter + t2.diameter) + 2 * min_clearance
    IN  IF 4 * sq = m * m THEN Call("FloatTendonsTooClose", <<t1, t2>>)
        ELSE SqrtBelowHalf(sq, m)

GroutNearTendon(grout, tendon) ==
    LET sq == SquaredDistance(grout.x, grout.y, tendon.x, tendon.y)
        m == grout.diameter + tendon.diameter + 2 * grout_clearance
    IN  IF 4 * sq = m * m THEN Call("FloatGroutNearTendon", <<grout, tendon>>)
        ELSE SqrtBelowHalf(sq, m)

\* A message, by the rule that wrote it and the numbers it names; the distances
\* the clearance message also prints are left out.
Finding(rule, ids) == [rule |-> rule, ids |-> ids]

\* Check 1: "Tendon T{id} too close to wall", in the order of the tendons.
WallViolations(tendons, fd, wt) ==
    LET hit == SelectSeq(tendons, LAMBDA t : TooCloseToWall(t, fd, wt))
    IN  [k \in 1..Len(hit) |-> Finding("wall", <<hit[k].id>>)]

\* The inner loop of check 2 for the tendon at position i (1-based): the
\* messages name the enumerate() indices i and j, not the ids.
ClearanceRow(tendons, i) ==
    LET js == [k \in 1..(Len(tendons) - i) |-> i + k]
        hit == SelectSeq(js, LAMBDA j : TendonsTooClose(tendons[i], tendons[j]))
    IN  [k \in 1..Len(hit) |-> Finding("clearance", <<i - 1, hit[k] - 1>>)]

RECURSIVE ClearanceFrom(_, _)
ClearanceFrom(tendons, i) ==
    IF i > Len(tendons) THEN <<>>
    ELSE ClearanceRow(tendons, i) \o ClearanceFrom(tendons, i + 1)

\* Check 2: "Tendons T{i} and T{j} too close (...)"
ClearanceViolations(tendons) == ClearanceFrom(tendons, 1)

\* The inner loop of check 3 for one grout connection.
GroutRow(grout, tendons) ==
    LET hit == SelectSeq(tendons, LAMBDA t : GroutNearTendon(grout, t))
    IN  [k \in 1..Len(hit) |-> Finding("grout", <<grout.id, hit[k].id>>)]

RECURSIVE GroutFrom(_, _, _)
GroutFrom(grouts, tendons, i) ==
    IF i > Len(grouts) THEN <<>>
    ELSE GroutRow(grouts[i], tendons) \o GroutFrom(grouts, tendons, i + 1)

\* Check 3: "Grout G{id} near Tendon T{id}"
GroutWarnings(grouts, tendons) == GroutFrom(grouts, tendons, 1)

\* The list `violations` after checks 1 to 3.
Violations(tendons, grouts, fd, wt) ==
    WallViolations(tendons, fd, wt) \o ClearanceViolations(tendons)

\* The list `warnings` after checks 1 to 3.
Warnings(tendons, grouts, fd, wt) == GroutWarnings(grouts, tendons)

-----------------------------------------------------------------------------
(* Estimates *)

steel_per_tendon == 150
\* USD 3.50, in cents
steel_cost_per_kg == 350
complexity_base == 20
complexity_per_tendon == 3
complexity_per_grout == 5
complexity_max == 100

Min(a, b) == IF a < b THEN a ELSE b

\* f"{v:,.0f}" of an amount in cents: whole dollars, to the nearest
FormatDollars(cents) == (cents + 50) \div 100

TotalSteel(tendon_count) == tendon_count * steel_per_tendon

SteelCost(total_steel) == FormatDollars(total_steel * steel_cost_per_kg)

\* A score that is not capped.
ComplexityUncapped(tendon_count, grout_count) ==
    complexity_base + tendon_count * complexity_per_tendon
    + grout_count * complexity_per_grout

\* min(10, 2 + tendon_count * 0.3 + len(grout_connections) * 0.5), in tenths
Complexity(tendon_count, grout_count) ==
    Min(complexity_max,
        complexity_base + tendon_count * complexity_per_tendon
        + grout_count * complexity_per_grout)

\* What the right-hand column of a script run shows for the current layout.
Analysis(h, layout, fd, wt) ==
    LET tendons == Tendons(h, layout)
        grouts == GroutConnections(h, layout)
    IN  [rendered |-> TRUE,
         n_tendons |-> Len(tendons),
         n_grout |-> Len(grouts),
         n_shafts |-> Len(AccessShafts(h, layout)),
         violations |-> Violations(tendons, grouts, fd, wt),
         warnings |-> Warnings(tendons, grouts, fd, wt),
         total_steel |-> TotalSteel(Len(tendons)),
         steel_cost |-> SteelCost(TotalSteel(Len(tendons))),
         complexity |-> Complexity(Len(tendons), Len(grouts))]

\* A run that ended before the column was drawn.
NotRendered ==
    [rendered |-> FALSE, n_tendons |-> 0, n_grout |-> 0, n_shafts |-> 0,
     violations |-> <<>>, warnings |-> <<>>,
     total_steel |-> 0, steel_cost |-> 0, complexity |-> 0]

-----------------------------------------------------------------------------
(* One run of the script, and one interaction *)

\* The button handlers of the sidebar's placement controls.
SidebarButtons(ss, w) ==
    CASE w.button = BtnGenerate -> GenerateCircularPattern(ss, w)
      [] w.button = BtnAddTendon -> AddTendon(ss, w)
      [] w.button = BtnAddGrout -> AddGroutConnection(ss, w)
      [] w.button = BtnAddShaft -> AddAccessShaft(ss, w)
      [] OTHER -> ss

\* One run of the script on session state ss with the widgets as in w: the
\* session state it leaves, what it rendered, and whether it ended in st.rerun().
ScriptRun(ss, w) ==
    IF SidebarRaises(w)
    THEN [ss |-> ss, page |-> NotRendered, rerun |-> FALSE]
    ELSE
    LET s1 == SidebarButtons(ss, w)
    IN  IF w.button = BtnClear
        THEN [ss |-> ClearAll(s1), page |-> NotRendered, rerun |-> TRUE]
        ELSE
        LET rendered == Analysis(s1.heap, s1.current_layout,
                                 w.foundation_diameter, w.wall_thickness)
            layout_name == TextInput(s1.current_layout.name, w.layout_name)
            s2 == [s1 EXCEPT !.current_layout.name = layout_name]
            s3 == IF w.button = BtnSave THEN SaveLayout(s2, w, layout_name) ELSE s2
        IN  IF w.button = BtnLoad
            THEN [ss |-> LoadLayout(s3, w.load_index), page |-> rendered, rerun |-> TRUE]
            ELSE [ss |-> s3, page |-> rendered, rerun |-> FALSE]

\* A handler that changes the layout and goes on without st.rerun().
NoRerun(r, w) == r

\* st.rerun(): the script runs again from the top, no button pressed; the text
\* input shows its (new) default.
Rerun(r, w) == ScriptRun(r.ss, [w EXCEPT !.button = NoButton, !.layout_name = NoText])

\* A click or a widget change, up to the run that ends without st.rerun().
Interaction(ss, w) ==
    LET r == ScriptRun(ss, w)
    IN  IF r.rerun THEN Rerun(r, w) ELSE r

\* The operations applied through Call, by name.
Dispatch(op, a) ==
    CASE op = "BAdd" -> BAddOf(a[1], a[2])
      [] op = "BSub" -> BSubOf(a[1], a[2])
      [] op = "BCmp" -> BCmpOf(a[1], a[2])
      [] op = "BMulSmall" -> BMulSmallOf(a[1], a[2])
      [] op = "BMul" -> BMulOf(a[1], a[2])
      [] op = "BDivSmall" -> BDivSmallOf(a[1], a[2])
      [] op = "Shl" -> ShlOf(a[1], a[2])
      [] op = "Shr" -> ShrOf(a[1], a[2])
      [] op = "BitLen" -> BitLenOf(a[1])
      [] op = "ISqrtBits" -> ISqrtBitsOf(a[1], a[2], a[3], a[4])
      [] op = "ISqrt" -> ISqrtOf(a[1])
      [] op = "Round" -> RoundOf(a[1], a[2], a[3])
      [] op = "RoundHalf" -> RoundHalf(a[1], a[2], a[3], a[4])
      [] op = "FAdd" -> FAddOf(a[1], a[2])
      [] op = "FAddAligned" -> FAddAligned(a[1], a[2], a[3], a[4], a[5])
      [] op = "FMul" -> FMulOf(a[1], a[2])
      [] op = "FDivInt" -> FDivIntOf(a[1], a[2])
      [] op = "FDivRound" -> FDivRound(a[1], a[2])
      [] op = "FSqrt" -> FSqrtOf(a[1])
      [] op = "FSqrtShifted" -> FSqrtShifted(a[1], a[2])
      [] op = "FSqrtRoot" -> FSqrtRoot(a[1], a[2])
      [] op = "FSqrtRound" -> FSqrtRound(a[1], a[2], a[3])
      [] op = "FSub" -> FSubOf(a[1], a[2])
      [] op = "FLess" -> FLessOf(a[1], a[2])
      [] op = "Metres" -> MetresOf(a[1])
      [] op = "FloatNorm" -> FloatNormOf(a[1], a[2])
      [] op = "FloatTooCloseToWall" -> FloatTooCloseToWallOf(a[1], a[2], a[3])
      [] op = "FloatTendonsTooClose" -> FloatTendonsTooCloseOf(a[1], a[2])
      [] op = "FloatGroutNearTendon" -> FloatGroutNearTendonOf(a[1], a[2])
      [] op = "Analysis" -> Analysis(a[1], a[2], a[3], a[4])
      [] op = "Interaction" -> Interaction(a[1], a[2])

Call(op, args) == CHOOSE r \in {Dispatch(op, a) : a \in {args}} : TRUE

-----------------------------------------------------------------------------
(* The session *)

SessionState == [heap |-> heap, current_layout |-> current_layout, layouts |-> layouts]

\* What the sidebar shows: the component type and, for tendons, the placement mode.
Views == {<<"Prestressing Tendon", "Circular Pattern">>,
          <<"Prestressing Tendon", "Manual">>,
          <<"Grout Connection", "-">>,
          <<"Access Shaft", "-">>}

default_num_tendons == 8

\* The widgets of a run in view `view` with button `button` pressed and the
\* placement sliders at `place`.
Widgets(button, view, place) ==
    [button |-> button,
     component_type |-> view[1],
     placement_mode |-> view[2],
     foundation_diameter |-> foundation_diameter,
     wall_thickness |-> wall_thickness,
     num_tendons |-> default_num_tendons,
     radius |-> default_radius,
     x |-> place.x, y |-> place.y, diameter |-> place.diameter,
     layout_name |-> NoText,
     load_index |-> 0,
     now |-> clock]

\* The placement sliders' defaults in a view.
Place(view) ==
    CASE view[1] = "Prestressing Tendon" -> default_manual
      [] view[1] = "Grout Connection" -> default_grout
      [] OTHER -> default_shaft

\* The interaction with widgets w, recorded as `op`.
Interact(w, op) ==
    /\ clock < MaxClock
    /\ \E r \in {Call("Interaction", <<SessionState, w>>)} :
         \E n \in {Normalize(r.ss)} :
           /\ heap' = n.heap
           /\ current_layout' = n.current_layout
           /\ layouts' = n.layouts
           /\ page' = r.page
    /\ foundation_diameter' = w.foundation_diameter
    /\ wall_thickness' = w.wall_thickness
    /\ clock' = clock + 1
    /\ event' = [op |-> op, n |-> Len(Tendons(heap, current_layout)),
                 w |-> CASE op = BtnGenerate -> <<w.num_tendons, w.diameter>>
                         [] op = BtnLoad -> <<w.load_index>>
                         [] OTHER -> <<>>]

\* A button can be pressed only if the last run drew it: its view does not raise.
Press(button, view, w) ==
    /\ ~SidebarRaises(w)
    /\ Interact(w, button)

ClickGenerate ==
    \E pattern \in PatternChoices, radius \in RadiusChoices :
        LET view == <<"Prestressing Tendon", "Circular Pattern">>
            w == [Widgets(BtnGenerate, view, Place(view)) EXCEPT
                    !.num_tendons = pattern[1], !.radius = radius,
                    !.diameter = pattern[2]]
        IN  Press(BtnGenerate, view, w)

ClickAddTendon ==
    LET view == <<"Prestressing Tendon", "Manual">>
    IN  Press(BtnAddTendon, view, Widgets(BtnAddTendon, view, Place(view)))

ClickAddGrout ==
    LET view == <<"Grout Connection", "-">>
    IN  Press(BtnAddGrout, view, Widgets(BtnAddGrout, view, Place(view)))

ClickAddShaft ==
    LET view == <<"Access Shaft", "-">>
    IN  Press(BtnAddShaft, view, Widgets(BtnAddShaft, view, Place(view)))

\* The buttons below the placement controls are drawn in every view whose
\* sliders do not raise, and do the same in each; the grout view never raises.
AnyView == <<"Grout Connection", "-">>

ClickClear ==
    Press(BtnClear, AnyView, Widgets(BtnClear, AnyView, Place(AnyView)))

ClickSave ==
    Press(BtnSave, AnyView, Widgets(BtnSave, AnyView, Place(AnyView)))

\* A "Load Layout {i}" button exists for each i in enumerate(layouts), and for no other i.
ClickLoad ==
    \E i \in 0..(Len(layouts) - 1) :
        Press(BtnLoad, AnyView,
              [Widgets(BtnLoad, AnyView, Place(AnyView)) EXCEPT !.load_index = i])

\* Moving the foundation diameter slider.
MoveFoundationDiameter ==
    \E view \in Views, fd \in FoundationDiameters \ {foundation_diameter} :
        Interact([Widgets(NoButton, view, Place(view)) EXCEPT
                    !.foundation_diameter = fd], "Foundation Diameter (m)")

\* Moving the wall thickness slider.
MoveWallThickness ==
    \E view \in Views, wt \in WallThicknesses \ {wall_thickness} :
        Interact([Widgets(NoButton, view, Place(view)) EXCEPT
                    !.wall_thickness = wt], "Wall Thickness (m)")

\* Typing a new name into the "Layout Name" box, which exists when the last run
\* reached it.
TypeLayoutName ==
    \E view \in Views, name \in TypedNames \ {current_layout.name} :
        LET w == [Widgets(NoButton, view, Place(view)) EXCEPT !.layout_name = name]
        IN  Press("Layout Name", view, w)

\* The first run of the script in a new session: lines 21-29 set up the session
\* state, every widget is at its default.
Init ==
    LET ss0 == [heap |-> <<<<>>, <<>>, <<>>>>,
                current_layout |-> [name |-> "Layout 1", tendons |-> 1,
                                    grout_connections |-> 2, access_shafts |-> 3],
                layouts |-> <<>>]
        view == <<"Prestressing Tendon", "Circular Pattern">>
        w0 == [button |-> NoButton, component_type |-> view[1],
               placement_mode |-> view[2],
               foundation_diameter |-> 10000, wall_thickness |-> 800,
               num_tendons |-> default_num_tendons, radius |-> default_radius,
               x |-> 0, y |-> 0, diameter |-> 150,
               layout_name |-> NoText, load_index |-> 0, now |-> 0]
    IN  /\ \E r \in {Call("Interaction", <<ss0, w0>>)} :
              /\ heap = r.ss.heap
              /\ current_layout = r.ss.current_layout
              /\ layouts = r.ss.layouts
              /\ page = r.page
        /\ foundation_diameter = w0.foundation_diameter
        /\ wall_thickness = w0.wall_thickness
        /\ clock = 0
        /\ event = [op |-> "start", n |-> 0, w |-> <<>>]

Next ==
    \/ ClickGenerate
    \/ ClickAddTendon
    \/ ClickAddGrout
    \/ ClickAddShaft
    \/ ClickClear
    \/ ClickSave
    \/ ClickLoad
    \/ MoveFoundationDiameter
    \/ MoveWallThickness
    \/ TypeLayoutName

Spec == Init /\ [][Next]_vars

-----------------------------------------------------------------------------
(* The validation and estimate blocks as functions of a layout: a second    *)
(* specification draws the layout and the foundation parameters and runs    *)
(* the "Engineering Analysis" column on them.  The parameters include wall  *)
(* thicknesses beyond the slider's 1.5 m, for which the inner radius is 0   *)
(* or negative; the tendon places include points 1 mm apart, and points on  *)
(* the 0.1 m grid of the position sliders that are exactly at a limit.      *)

ValidatedPlaces == {<<0, 0>>, <<300, 0>>, <<0, -600>>, <<200, 0>>, <<700, 0>>,
                    <<1600, 0>>, <<4100, 0>>, <<4101, 0>>}
ValidatedDiameters == {200, 300}
ValidatedGrouts == {<<0, 2000, 400>>, <<300, 0, 400>>, <<200, 0, 400>>}
ValidatedParameters == {<<10000, 800>>, <<5000, 800>>, <<5000, 2500>>, <<5000, 2600>>}

\* A tendon list: ids as the handlers assign them, 0..n-1.
TendonList(f) ==
    [k \in DOMAIN f |-> [id |-> k - 1, x |-> f[k][1][1], y |-> f[k][1][2],
                          diameter |-> f[k][2], type |-> "vertical"]]

GroutLists ==
    {<<>>} \cup {<<[id |-> 0, x |-> g[1], y |-> g[2], diameter |-> g[3]]>> :
                    g \in ValidatedGrouts}

ShaftLists ==
    {<<>>, <<[id |-> 0, x |-> default_shaft.x, y |-> default_shaft.y,
              diameter |-> default_shaft.diameter]>>}

InitValidate ==
    /\ \E n \in 0..MaxValidated :
         \E f \in [1..n -> ValidatedPlaces \X ValidatedDiameters] :
            \E grouts \in GroutLists, shafts \in ShaftLists :
               heap = <<TendonList(f), grouts, shafts>>
    /\ current_layout = [name |-> "Layout 1", tendons |-> 1,
                         grout_connections |-> 2, access_shafts |-> 3]
    /\ layouts = <<>>
    /\ \E p \in ValidatedParameters :
         foundation_diameter = p[1] /\ wall_thickness = p[2]
    /\ page = NotRendered
    /\ clock = 0
    /\ event = [op |-> "start", n |-> 0, w |-> <<>>]

\* Lines 189-255 on the current layout.
RunAnalysis ==
    /\ ~page.rendered
    /\ page' = Call("Analysis", <<heap, current_layout, foundation_diameter,
                                  wall_thickness>>)
    /\ UNCHANGED <<heap, current_layout, layouts, foundation_diameter,
                   wall_thickness, clock, event>>

NextValidate == RunAnalysis

SpecValidate == InitValidate /\ [][NextValidate]_vars

-----------------------------------------------------------------------------
(* Properties *)

Sq(a) == a * a

\* The collections of the current layout.
T == Tendons(heap, current_layout)
G == GroutConnections(heap, current_layout)
A == AccessShafts(heap, current_layout)

\* A saved layout with its lists read through the heap.
Snapshot(h, layout) ==
    [name |-> layout.name, timestamp |-> layout.timestamp,
     tendons |-> h[layout.tendons],
     grout_connections |-> h[layout.grout_connections],
     access_shafts |-> h[layout.access_shafts],
     foundation_diameter |-> layout.foundation_diameter,
     wall_thickness |-> layout.wall_thickness]

\* The interactions the specification calls user actions.
UserActions == {BtnGenerate, BtnAddTendon, BtnAddGrout, BtnAddShaft,
                BtnClear, BtnSave, BtnLoad}

\* The three rules as the specification words them, doubled to stay integral:
\* d + r > outerRadius - wallThickness
RuleOutside(t, fd, wt) ==
    \/ fd - 2 * wt - t.diameter < 0
    \/ 4 * (Sq(t.x) + Sq(t.y)) > Sq(fd - 2 * wt - t.diameter)
\* dist < (diameter_i + diameter_j)/2 + 0.3 m
RuleTooClose(t1, t2) ==
    4 * (Sq(t1.x - t2.x) + Sq(t1.y - t2.y)) < Sq(t1.diameter + t2.diameter + 600)
\* dist < groutRadius + tendonRadius + 0.2 m
RuleNear(g, t) ==
    4 * (Sq(g.x - t.x) + Sq(g.y - t.y)) < Sq(g.diameter + t.diameter + 400)

\* How often a message of `rule` naming `ids` is in the list.
Count(list, rule, ids) ==
    Cardinality({k \in 1..Len(list) : list[k] = [rule |-> rule, ids |-> ids]})

IdsInOrder(list) == \A k \in 1..Len(list) : list[k].id = k - 1

\* C1: a saved snapshot never changes: after any interaction every snapshot is
\* still at its position in `layouts`, with the same name, timestamp, tendons,
\* grout connections, access shafts and foundation parameters.
C1_SnapshotsImmutable ==
    [][\A k \in 1..Len(layouts) :
          /\ k <= Len(layouts')
          /\ Snapshot(heap', layouts'[k]) = Snapshot(heap, layouts[k])]_vars

\* Two snapshots are saved, the current layout is a loaded copy of one of them
\* and a tendon was added to it afterwards.
C1_Witness ==
    /\ Len(layouts) = 2
    /\ event.op = BtnAddTendon
    /\ \E k \in 1..2 :
          /\ current_layout.name = layouts[k].name \o " (copy)"
          /\ T = Append(heap[layouts[k].tendons],
                        [id |-> event.n, x |-> default_manual.x, y |-> default_manual.y,
                         diameter |-> default_manual.diameter, type |-> "vertical"])

\* C2: in every state the ids of the current layout's tendons, grout
\* connections and access shafts are 0..count-1 in collection order, and a
\* manual addition appends one component whose id is the length before it.
C2_IdsInOrder ==
    /\ [](IdsInOrder(T) /\ IdsInOrder(G) /\ IdsInOrder(A))
    /\ [][clock' # clock =>
            /\ event'.op = BtnAddTendon =>
                  Len(T') = Len(T) + 1 /\ T' = Append(T, T'[Len(T')])
                  /\ T'[Len(T')].id = Len(T)
            /\ event'.op = BtnAddGrout =>
                  Len(G') = Len(G) + 1 /\ G' = Append(G, G'[Len(G')])
                  /\ G'[Len(G')].id = Len(G)
            /\ event'.op = BtnAddShaft =>
                  Len(A') = Len(A) + 1 /\ A' = Append(A, A'[Len(A')])
                  /\ A'[Len(A')].id = Len(A)]_vars

\* A tendon was added by hand to a generated pattern of four.
C2_Witness ==
    /\ event.op = BtnAddTendon
    /\ event.n = 4
    /\ Len(T) = 5
    /\ T[5].id = 4
    /\ T[5].x = default_manual.x /\ T[5].y = default_manual.y

\* C3: generating a pattern replaces the tendons: afterwards there are exactly
\* `count` tendons, ids 0..count-1 in order, all of the given diameter; grout
\* connections, access shafts, layout name and saved snapshots are unchanged.
C3_GenerateReplaces ==
    [][event'.op = BtnGenerate /\ clock' # clock =>
          /\ Len(T') = event'.w[1]
          /\ \A k \in 1..Len(T') : T'[k].id = k - 1 /\ T'[k].diameter = event'.w[2]
          /\ G' = G
          /\ A' = A
          /\ current_layout'.name = current_layout.name
          /\ Len(layouts') = Len(layouts)
          /\ \A k \in 1..Len(layouts) :
                Snapshot(heap', layouts'[k]) = Snapshot(heap, layouts[k])]_vars

\* A pattern was generated over a collection that held tendons, next to grout
\* connections that stayed.
C3_Witness ==
    /\ event.op = BtnGenerate
    /\ event.n > 0
    /\ Len(T) = event.w[1]
    /\ Len(G) > 0

\* C4: when a user action has been processed, the column was rendered, and what
\* is rendered (violations, warnings, counts, estimates) is the analysis of the
\* current layout as it is then, under the foundation parameters as they are.
C4_AnalysisIsCurrent ==
    /\ event.op \in UserActions => page.rendered
    /\ page.rendered =>
          page = Analysis(heap, current_layout, foundation_diameter, wall_thickness)

\* A load replaced a layout by one with another number of tendons and another
\* list of violations.
C4_Witness ==
    /\ event.op = BtnLoad
    /\ page.rendered
    /\ page.n_tendons # event.n
    /\ page.violations # <<>>

\* C5: a load makes the current layout's three collections copies (new lists
\* with the same items) of the snapshot's, names it the snapshot's name followed
\* by " (copy)", and leaves both foundation sliders and the saved list as they were.
C5_LoadCopies ==
    [][event'.op = BtnLoad /\ clock' # clock =>
          LET k == event'.w[1] + 1
          IN  /\ k \in 1..Len(layouts)
              /\ T' = heap[layouts[k].tendons]
              /\ G' = heap[layouts[k].grout_connections]
              /\ A' = heap[layouts[k].access_shafts]
              /\ \A j \in 1..Len(layouts') :
                    /\ current_layout'.tendons # layouts'[j].tendons
                    /\ current_layout'.grout_connections # layouts'[j].grout_connections
                    /\ current_layout'.access_shafts # layouts'[j].access_shafts
              /\ current_layout'.name = layouts[k].name \o " (copy)"
              /\ foundation_diameter' = foundation_diameter
              /\ wall_thickness' = wall_thickness
              /\ Len(layouts') = Len(layouts)
              /\ \A j \in 1..Len(layouts) :
                    Snapshot(heap', layouts'[j]) = Snapshot(heap, layouts[j])]_vars

\* A snapshot saved under other foundation parameters was loaded.
C5_Witness ==
    /\ event.op = BtnLoad
    /\ LET s == layouts[event.w[1] + 1]
       IN  /\ s.foundation_diameter # foundation_diameter
           /\ Len(T) > 0
           /\ current_layout.name = s.name \o " (copy)"

\* C6 has no formula: a "Load Layout {i}" button exists only for an i of
\* enumerate(layouts) (ClickLoad) and its handler never indexes the list, so no
\* interaction loads an index out of range, and the script has no statement
\* that signals one.

\* C7: the clearance messages are exactly one per pair of tendons i < j whose
\* centre distance is below (diameter_i + diameter_j)/2 + 0.3 m, diameters in
\* millimetres divided by 1000; each names the ids of both tendons; the test
\* gives the same answer with the two tendons exchanged; two 300 mm tendons
\* whose centres are 0.3 m apart are reported.
C7_ClearanceRule ==
    page.rendered =>
        LET pairs == {p \in (1..Len(T)) \X (1..Len(T)) : p[1] < p[2]}
            close == {p \in pairs : RuleTooClose(T[p[1]], T[p[2]])}
            reports == SelectSeq(page.violations, LAMBDA v : v.rule = "clearance")
        IN  /\ \A p \in pairs :
                  Count(page.violations, "clearance", <<T[p[1]].id, T[p[2]].id>>)
                    = IF p \in close THEN 1 ELSE 0
            /\ Len(reports) = Cardinality(close)
            /\ \A p \in pairs :
                  TendonsTooClose(T[p[1]], T[p[2]]) = TendonsTooClose(T[p[2]], T[p[1]])
            /\ \A p \in pairs :
                  /\ T[p[1]].diameter = 300 /\ T[p[2]].diameter = 300
                  /\ Sq(T[p[1]].x - T[p[2]].x) + Sq(T[p[1]].y - T[p[2]].y) = Sq(300)
                  => Count(page.violations, "clearance", <<T[p[1]].id, T[p[2]].id>>) = 1

\* Two 200 mm tendons at x = 0.2 m and x = 0.7 m, y = 0, were validated: their
\* centres are 0.5 m apart, which is (200 + 200)/1000/2 + 0.3 and not below
\* it, and the pair is reported (the float 0.7 - 0.2 is below the float 0.5).
C7_Witness ==
    /\ page.rendered
    /\ Len(T) = 2
    /\ <<T[1].x, T[1].y, T[1].diameter>> = <<200, 0, 200>>
    /\ <<T[2].x, T[2].y, T[2].diameter>> = <<700, 0, 200>>
    /\ ~RuleTooClose(T[1], T[2])
    /\ Count(page.violations, "clearance", <<0, 1>>) = 1

\* C8: a tendon has a containment message, under its id, exactly when its
\* radial offset plus its radius (diameter in mm / 1000 / 2) is strictly
\* greater than outer diameter / 2 - wall thickness: none for a tendon exactly
\* at the limit, one for the same tendon 1 mm farther out, and one for every
\* tendon when the inner radius is zero or negative.
C8_ContainmentRule ==
    page.rendered =>
        LET fd == foundation_diameter
            wt == wall_thickness
            reported(t) == Count(page.violations, "wall", <<t.id>>)
            limit(t) == fd - 2 * wt - t.diameter
        IN  /\ \A k \in 1..Len(T) :
                  reported(T[k]) = IF RuleOutside(T[k], fd, wt) THEN 1 ELSE 0
            /\ \A k \in 1..Len(T) :
                  limit(T[k]) >= 0 /\ 4 * (Sq(T[k].x) + Sq(T[k].y)) = Sq(limit(T[k]))
                  => reported(T[k]) = 0
            /\ \A k \in 1..Len(T) :
                  limit(T[k]) >= 0 /\ T[k].y = 0 /\ 2 * (T[k].x - 1) = limit(T[k])
                  => reported(T[k]) = 1
            /\ fd - 2 * wt <= 0 => \A k \in 1..Len(T) : reported(T[k]) = 1

\* A 200 mm tendon at x = 1.6 m, y = 0 in a 5.0 m foundation with 0.8 m walls
\* was validated: 1.6 + 0.1 is exactly 5.0/2 - 0.8, not greater, and the tendon
\* is reported (the float 1.6 + 0.1 is above the float 2.5 - 0.8).
C8_Witness ==
    /\ page.rendered
    /\ foundation_diameter = 5000 /\ wall_thickness = 800
    /\ Len(T) = 1
    /\ <<T[1].x, T[1].y, T[1].diameter>> = <<1600, 0, 200>>
    /\ ~RuleOutside(T[1], foundation_diameter, wall_thickness)
    /\ Count(page.violations, "wall", <<0>>) = 1

\* C9: violations is non-empty exactly when the containment rule fires for a
\* tendon or the clearance rule for a pair; warnings is non-empty exactly when
\* a grout connection and a tendon are closer than their radii plus 0.2 m; no
\* grout finding is among the violations; the access shafts change neither list.
C9_ListsIndependent ==
    page.rendered =>
        LET fd == foundation_diameter
            wt == wall_thickness
            noshafts == [heap EXCEPT ![current_layout.access_shafts] = <<>>]
        IN  /\ page.violations # <<>> <=>
                  \/ \E k \in 1..Len(T) : RuleOutside(T[k], fd, wt)
                  \/ \E i, j \in 1..Len(T) : i < j /\ RuleTooClose(T[i], T[j])
            /\ page.warnings # <<>> <=>
                  \E g \in 1..Len(G), k \in 1..Len(T) : RuleNear(G[g], T[k])
            /\ \A k \in 1..Len(page.violations) : page.violations[k].rule # "grout"
            /\ \A k \in 1..Len(page.warnings) : page.warnings[k].rule = "grout"
            /\ page.violations = Analysis(noshafts, current_layout, fd, wt).violations
            /\ page.warnings = Analysis(noshafts, current_layout, fd, wt).warnings

\* A layout was validated in which no tendon is beyond its limit, no pair is
\* closer than its clearance and no grout connection is closer to a tendon
\* than theirs, and both lists are non-empty.
C9_Witness ==
    /\ page.rendered
    /\ \A k \in 1..Len(T) : ~RuleOutside(T[k], foundation_diameter, wall_thickness)
    /\ \A i, j \in 1..Len(T) : i < j => ~RuleTooClose(T[i], T[j])
    /\ \A g \in 1..Len(G), k \in 1..Len(T) : ~RuleNear(G[g], T[k])
    /\ page.violations # <<>>
    /\ page.warnings # <<>>

\* C10: the estimates of any layout a session reaches are 150 kg of steel per
\* tendon, USD 3.50 per kg, and a complexity of min(10, 2 + 0.3 per tendon +
\* 0.5 per grout connection), which is within [2, 10] and the same without the
\* access shafts; after a clear they are 0, 0, 2.0, and for 8 tendons without
\* grout connections 1200, 4200, 4.4.  (Complexity in tenths.)
C10_Estimates ==
    page.rendered =>
        LET n == Len(T)
            g == Len(G)
            noshafts == [heap EXCEPT ![current_layout.access_shafts] = <<>>]
            without == Analysis(noshafts, current_layout,
                                foundation_diameter, wall_thickness)
        IN  /\ page.total_steel = n * 150
            /\ page.steel_cost * 100 = page.total_steel * 350
            /\ page.complexity = (IF 20 + 3 * n + 5 * g > 100 THEN 100
                                  ELSE 20 + 3 * n + 5 * g)
            /\ 20 <= page.complexity /\ page.complexity <= 100
            /\ <<without.total_steel, without.steel_cost, without.complexity>>
                 = <<page.total_steel, page.steel_cost, page.complexity>>
            /\ event.op = BtnClear =>
                 <<page.total_steel, page.steel_cost, page.complexity>> = <<0, 0, 20>>
            /\ n = 8 /\ g = 0 =>
                 <<page.total_steel, page.steel_cost, page.complexity>> = <<1200, 4200, 44>>

\* A layout with an access shaft whose uncapped score would exceed 10.
C10_Witness ==
    /\ page.rendered
    /\ 20 + 3 * Len(T) + 5 * Len(G) > 100
    /\ Len(A) > 0
    /\ page.complexity = 100

====
